---- MODULE Spec2Model ----
(***************************************************************************)
(* Model of the BeeAI MCP provider (src/src/server.js, and the second      *)
(* revision of the same file that follows the Dockerfile text in           *)
(* src/Dockerfile).                                                        *)
(*                                                                         *)
(* The process is a single-threaded event loop: an action below is a piece *)
(* of one async function that runs without suspending, ending at an await  *)
(* or at the function's return.  Process 0 is the                          *)
(* top-level `await runServer()`; processes 1..MaxInv are requests served  *)
(* by the stdio server (tool calls, agent invocations) and calls of the    *)
(* exported createServer.  Calls into the framework / SDK (tool.run,       *)
(* agent.run, MCPTool.fromClient, client.close) are external: they either  *)
(* produce a value or throw, chosen nondeterministically.                  *)
(***************************************************************************)
EXTENDS Naturals, Sequences, FiniteSets, TLC

\* ---------------------------------------------------------------- bounds
MaxInv == 2

Procs == 0 .. MaxInv
Tasks == 1 .. MaxInv

\* ------------------------------------------------------- input domains
Revisions == {"server.js", "Dockerfile"}
LLMTypes == {"ollama", "openai", "bogus"}
ToolNames == {"weather", "search"}
Flags == {"true", "false", "undefined"}
Args == {"a1", "a2"}
Outputs == {"r1", "r2"}

\* JavaScript truthiness of a flag value (true / false / undefined).
Truthy(f) == f = "true"

VARIABLES
  rev,         \* which revision of server.js the process runs
  pc,          \* next statement of each process
  req,         \* the request / call each process serves
  server,      \* the McpServer object each process constructed
  client,      \* heap of Client objects, named by the process that did `new Client`
  clientRef,   \* the handler-local `client` binding (0 = unbound)
  discovered,  \* availableTools (names) returned by MCPTool.fromClient
  agentTools,  \* the `tools` option handed to new BeeAgent
  llm,         \* what createLLM did in this handler
  calls,       \* external run calls made by the handler: <<[callee, args]>>
  produced,    \* the value the external run call produced
  raised,      \* errors raised inside the handler, in order
  out,         \* how the handler settled towards its caller
  closedBy,    \* closedBy[c]: processes that called close() on Client c
  usedBy       \* usedBy[c]: processes that sent MCP requests over Client c

vars == <<rev, pc, req, server, client, clientRef, discovered, agentTools,
          llm, calls, produced, raised, out, closedBy, usedBy>>

\* ------------------------------------------------------------ createLLM
createLLM_fallback(type) ==
  [threw |-> FALSE, value |-> "OllamaChatLLM"]

createLLM(type) ==
  IF type = "ollama"
    THEN [threw |-> FALSE, value |-> "OllamaChatLLM"]
    ELSE [threw |-> TRUE, value |-> "Unsupported llm " \o type]

NoLLM == [called |-> FALSE, threw |-> FALSE, value |-> "none"]

\* ---------------------------------------------------------- createServer
NoServer ==
  [made |-> FALSE, capTools |-> FALSE, capAgents |-> FALSE,
   tools |-> {}, agents |-> {}, connected |-> FALSE]

\* `{ tools, agents } = { tools: true, agents: true }`: the default applies
\* only when no argument object is passed at all.
DefaultArg == [given |-> FALSE, tools |-> "undefined", agents |-> "undefined"]

CreateServerArgs ==
  {DefaultArg} \cup {[given |-> TRUE, tools |-> a, agents |-> b] : a \in Flags, b \in Flags}

Effective(arg) ==
  IF arg.given THEN arg ELSE [given |-> FALSE, tools |-> "true", agents |-> "true"]

NoReq ==
  [kind |-> "none", name |-> "none", args |-> "none", llm |-> "none",
   tools |-> {}, arg |-> DefaultArg]

\* createClientServerLinkedPair: createServer({ tools: true })
LinkedPairArg == [given |-> TRUE, tools |-> "true", agents |-> "undefined"]

Pending == [state |-> "pending", value |-> "none"]
Returned(v) == [state |-> "returned", value |-> v]
Threw(e) == [state |-> "threw", value |-> e]

\* Where the caller of createServer continues once it has the server.
ReturnTo(kind) ==
  IF kind = "runServer" THEN "connectStdio"
  ELSE IF kind = "Bee" THEN "serverConnect"
  ELSE "done"

AfterTools_always(kind, arg) == "regAgents"

\* if (agents) await registerAgents(server);
AfterTools(kind, arg) ==
  IF Truthy(Effective(arg).agents) THEN "regAgents" ELSE ReturnTo(kind)

AfterNew_noAwait(kind, arg) == ReturnTo(kind)

\* if (tools) await registerTools(server);
AfterNew(kind, arg) ==
  IF Truthy(Effective(arg).tools) THEN "regWeather" ELSE AfterTools(kind, arg)

\* new McpServer(info, { capabilities: { tools: tools ? {} : undefined,
\*                                       agents: agents ? {} : undefined } })
newMcpServer(arg) ==
  [made |-> TRUE,
   capTools |-> Truthy(Effective(arg).tools),
   capAgents |-> Truthy(Effective(arg).agents),
   tools |-> {}, agents |-> {}, connected |-> FALSE]

\* Process t moves to `nxt`; an exported createServer call that has nothing
\* left to await returns the server to its caller.
Goto(t, kind, nxt) ==
  /\ pc' = [pc EXCEPT ![t] = nxt]
  /\ out' = IF kind = "createServer" /\ nxt = "done"
              THEN [out EXCEPT ![t] = Returned("server")] ELSE out

\* createServer up to its first await.
createServer(t, kind, arg) ==
  /\ server' = [server EXCEPT ![t] = newMcpServer(arg)]
  /\ Goto(t, kind, AfterNew(kind, arg))

\* --------------------------------------------------------- registerTools
\* A registration: under `name`, the description / input schema / run
\* operation of the named tool objects.
Registration(name, description, schema, run) ==
  [name |-> name, description |-> description, schema |-> schema, run |-> run]

WeatherRegistration ==
  Registration("weather", "OpenMeteoTool", "OpenMeteoTool", "OpenMeteoTool")

SearchRegistration_crossed ==
  Registration("search", "DuckDuckGoSearchTool", "OpenMeteoTool", "OpenMeteoTool")

SearchRegistration ==
  Registration("search", "DuckDuckGoSearchTool", "OpenMeteoTool", "DuckDuckGoSearchTool")

\* server.tool("weather", ...) once `await weatherTool.inputSchema().shape`
\* has resumed.
RegisterWeather(t) ==
  /\ pc[t] = "regWeather"
  /\ server' = [server EXCEPT ![t].tools = @ \cup {WeatherRegistration}]
  /\ pc' = [pc EXCEPT ![t] = "regSearch"]
  /\ UNCHANGED <<rev, req, client, clientRef, discovered, agentTools, llm,
                 calls, produced, raised, out, closedBy, usedBy>>

\* server.tool("search", ...): the schema argument is again
\* `await weatherTool.inputSchema().shape`.
RegisterSearch(t) ==
  /\ pc[t] = "regSearch"
  /\ server' = [server EXCEPT ![t].tools = @ \cup {SearchRegistration}]
  /\ Goto(t, req[t].kind, AfterTools(req[t].kind, req[t].arg))
  /\ UNCHANGED <<rev, req, client, clientRef, discovered, agentTools, llm,
                 calls, produced, raised, closedBy, usedBy>>

\* -------------------------------------------------------- registerAgents
RegisterAgents(t) ==
  /\ pc[t] = "regAgents"
  /\ server' = [server EXCEPT ![t].agents = {"Bee", "Streamlit"}]
  /\ Goto(t, req[t].kind, ReturnTo(req[t].kind))
  /\ UNCHANGED <<rev, req, client, clientRef, discovered, agentTools, llm,
                 calls, produced, raised, closedBy, usedBy>>

\* ------------------------------------------------------------- runServer
\* const server = await createServer();
RunServer ==
  /\ pc[0] = "runServer"
  /\ createServer(0, "runServer", DefaultArg)
  /\ UNCHANGED <<rev, req, client, clientRef, discovered, agentTools, llm,
                 calls, produced, raised, closedBy, usedBy>>

\* await server.connect(new StdioServerTransport())
RunServerConnect ==
  /\ pc[0] = "connectStdio"
  /\ server' = [server EXCEPT ![0].connected = TRUE]
  /\ pc' = [pc EXCEPT ![0] = "serving"]
  /\ UNCHANGED <<rev, req, client, clientRef, discovered, agentTools, llm,
                 calls, produced, raised, out, closedBy, usedBy>>

\* ------------------------------------------------ registered tool handlers
\* The registration the connected stdio server dispatches a tool call to.
HandlerFor(name) == CHOOSE r \in server[0].tools : r.name = name

\* (args) => tool.run(args): the handler calls run and returns its promise.
ToolRequest(t) ==
  /\ pc[t] = "idle"
  /\ server[0].connected
  /\ \E name \in {r.name : r \in server[0].tools}, a \in Args :
       /\ req' = [req EXCEPT ![t] =
            [NoReq EXCEPT !.kind = "tool", !.name = name, !.args = a]]
       /\ calls' = [calls EXCEPT ![t] =
            <<[callee |-> HandlerFor(name).run, args |-> a]>>]
  /\ pc' = [pc EXCEPT ![t] = "toolRun"]
  /\ UNCHANGED <<rev, server, client, clientRef, discovered, agentTools, llm,
                 produced, raised, out, closedBy, usedBy>>

ToolRunSettles(t) ==
  /\ pc[t] = "toolRun"
  /\ \/ \E v \in Outputs :
          /\ produced' = [produced EXCEPT ![t] = v]
          /\ out' = [out EXCEPT ![t] = Returned(v)]
          /\ UNCHANGED raised
     \/ /\ raised' = [raised EXCEPT ![t] = Append(@, "E_tool")]
        /\ out' = [out EXCEPT ![t] = Threw("E_tool")]
        /\ UNCHANGED produced
  /\ pc' = [pc EXCEPT ![t] = "done"]
  /\ UNCHANGED <<rev, req, server, client, clientRef, discovered, agentTools,
                 llm, calls, closedBy, usedBy>>

\* ------------------------------------------------------- Streamlit agent
\* server.js: one handler, createLLM then run.  Dockerfile revision: a
\* factory that calls createLLM and returns [run, destroy].
StreamlitRequest(t) ==
  /\ pc[t] = "idle"
  /\ server[0].connected
  /\ "Streamlit" \in server[0].agents
  /\ \E l \in LLMTypes :
       /\ req' = [req EXCEPT ![t] = [NoReq EXCEPT !.kind = "Streamlit", !.llm = l]]
       /\ llm' = [llm EXCEPT ![t] =
            [called |-> TRUE, threw |-> createLLM(l).threw, value |-> createLLM(l).value]]
       /\ IF createLLM(l).threw
            THEN /\ raised' = [raised EXCEPT ![t] = Append(@, createLLM(l).value)]
                 /\ out' = [out EXCEPT ![t] = Threw(createLLM(l).value)]
                 /\ pc' = [pc EXCEPT ![t] = "done"]
                 /\ UNCHANGED calls
            ELSE /\ UNCHANGED <<raised, out>>
                 /\ IF rev = "server.js"
                      THEN /\ calls' = [calls EXCEPT ![t] =
                                <<[callee |-> "StreamlitAgent", args |-> "prompt"]>>]
                           /\ pc' = [pc EXCEPT ![t] = "slRun"]
                      ELSE /\ UNCHANGED calls
                           /\ pc' = [pc EXCEPT ![t] = "slRunCallback"]
  /\ UNCHANGED <<rev, server, client, clientRef, discovered, agentTools,
                 produced, closedBy, usedBy>>

StreamlitRunCallback(t) ==
  /\ pc[t] = "slRunCallback"
  /\ calls' = [calls EXCEPT ![t] = <<[callee |-> "StreamlitAgent", args |-> "prompt"]>>]
  /\ pc' = [pc EXCEPT ![t] = "slRun"]
  /\ UNCHANGED <<rev, req, server, client, clientRef, discovered, agentTools,
                 llm, produced, raised, out, closedBy, usedBy>>

StreamlitRunSettles(t) ==
  /\ pc[t] = "slRun"
  /\ \/ /\ produced' = [produced EXCEPT ![t] = "r1"]
        /\ out' = [out EXCEPT ![t] = Returned("r1")]
        /\ UNCHANGED raised
     \/ /\ raised' = [raised EXCEPT ![t] = Append(@, "E_run")]
        /\ out' = [out EXCEPT ![t] = Threw("E_run")]
        /\ UNCHANGED produced
  /\ pc' = [pc EXCEPT ![t] = IF rev = "server.js" THEN "done" ELSE "slDestroy"]
  /\ UNCHANGED <<rev, req, server, client, clientRef, discovered, agentTools,
                 llm, calls, closedBy, usedBy>>

StreamlitDestroy(t) ==
  /\ pc[t] = "slDestroy"
  /\ pc' = [pc EXCEPT ![t] = "done"]
  /\ UNCHANGED <<rev, req, server, client, clientRef, discovered, agentTools,
                 llm, calls, produced, raised, out, closedBy, usedBy>>

\* ------------------------------------------------------------ Bee agent
\* The handler up to its first await: createClientServerLinkedPair does
\* new Client and createServer({ tools: true }).
BeeRequest(t) ==
  /\ pc[t] = "idle"
  /\ server[0].connected
  /\ "Bee" \in server[0].agents
  /\ req' = [req EXCEPT ![t] = [NoReq EXCEPT !.kind = "Bee", !.arg = LinkedPairArg]]
  /\ client' = [client EXCEPT ![t] = "new"]
  /\ createServer(t, "Bee", LinkedPairArg)
  /\ UNCHANGED <<rev, clientRef, discovered, agentTools, llm, calls, produced,
                 raised, closedBy, usedBy>>

\* createClientServerLinkedPair: await server.connect(serverTransport)
ServerConnect(t) ==
  /\ pc[t] = "serverConnect"
  /\ server' = [server EXCEPT ![t].connected = TRUE]
  /\ pc' = [pc EXCEPT ![t] = "clientConnect"]
  /\ UNCHANGED <<rev, req, client, clientRef, discovered, agentTools, llm,
                 calls, produced, raised, out, closedBy, usedBy>>

\* The Client object that `const [client] = await createClientServerLinkedPair()`
\* binds in handler t: the one that call itself constructed.
LinkedClient_shared(t) == CHOOSE c \in Tasks : \A d \in Tasks : c <= d

LinkedClient(t) == t

\* await client.connect(clientTransport); return [client, server]
ClientConnect(t) ==
  /\ pc[t] = "clientConnect"
  /\ client' = [client EXCEPT ![t] = "connected"]
  /\ clientRef' = [clientRef EXCEPT ![t] = LinkedClient(t)]
  /\ pc' = [pc EXCEPT ![t] = "fromClient"]
  /\ UNCHANGED <<rev, req, server, discovered, agentTools, llm, calls,
                 produced, raised, out, closedBy, usedBy>>

\* A failure inside the handler: server.js enters `finally`, the Dockerfile
\* revision has no cleanup on this path and rejects at once.
Fail(t, e) ==
  /\ raised' = [raised EXCEPT ![t] = Append(@, e)]
  /\ IF rev = "server.js"
       THEN /\ pc' = [pc EXCEPT ![t] = "close"]
            /\ UNCHANGED out
       ELSE /\ pc' = [pc EXCEPT ![t] = "done"]
            /\ out' = [out EXCEPT ![t] = Threw(e)]

\* Names of the tools the server at the other end of Client c lists.
Listed(c) == IF server[c].capTools THEN {r.name : r \in server[c].tools} ELSE {}

\* const availableTools = await MCPTool.fromClient(client)
FromClient(t) ==
  /\ pc[t] = "fromClient"
  /\ usedBy' = [usedBy EXCEPT ![clientRef[t]] = @ \cup {t}]
  /\ \/ /\ client[clientRef[t]] = "connected"
        /\ discovered' = [discovered EXCEPT ![t] = Listed(clientRef[t])]
        /\ pc' = [pc EXCEPT ![t] = "buildAgent"]
        /\ UNCHANGED <<raised, out>>
     \/ /\ Fail(t, "E_transport")
        /\ UNCHANGED discovered
  /\ UNCHANGED <<rev, req, server, client, clientRef, agentTools, llm, calls,
                 produced, closedBy>>

\* availableTools.filter((tool) => config.tools.includes(tool.name))
FilterTools_all(available, configTools) == available

FilterTools(available, configTools) == {n \in available : n \in configTools}

\* new BeeAgent({ llm: createLLM(config.llm.type), tools: ..., memory })
\* followed in server.js by .run({ prompt }); in the Dockerfile revision the
\* factory returns [run, destroy] instead.  `config` is an immutable argument
\* of the handler that is first read here, so its value is chosen here.
BuildBeeAgent(t) ==
  /\ pc[t] = "buildAgent"
  /\ \E l \in LLMTypes, tl \in SUBSET ToolNames :
       /\ llm' = [llm EXCEPT ![t] =
            [called |-> TRUE, threw |-> createLLM(l).threw, value |-> createLLM(l).value]]
       /\ IF createLLM(l).threw
            THEN /\ req' = [req EXCEPT ![t].llm = l]
                 /\ Fail(t, createLLM(l).value)
                 /\ UNCHANGED <<agentTools, calls>>
            ELSE /\ req' = [req EXCEPT ![t].llm = l, ![t].tools = tl]
                 /\ agentTools' = [agentTools EXCEPT ![t] = FilterTools(discovered[t], tl)]
                 /\ UNCHANGED <<raised, out>>
                 /\ IF rev = "server.js"
                      THEN /\ calls' = [calls EXCEPT ![t] =
                                <<[callee |-> "BeeAgent", args |-> "prompt"]>>]
                           /\ pc' = [pc EXCEPT ![t] = "beeRun"]
                      ELSE /\ UNCHANGED calls
                           /\ pc' = [pc EXCEPT ![t] = "beeRunCallback"]
  /\ UNCHANGED <<rev, server, client, clientRef, discovered, produced,
                 closedBy, usedBy>>

\* Dockerfile revision: the run callback, agent.run({ prompt }, { signal })
BeeRunCallback(t) ==
  /\ pc[t] = "beeRunCallback"
  /\ calls' = [calls EXCEPT ![t] = <<[callee |-> "BeeAgent", args |-> "prompt"]>>]
  /\ pc' = [pc EXCEPT ![t] = "beeRun"]
  /\ UNCHANGED <<rev, req, server, client, clientRef, discovered, agentTools,
                 llm, produced, raised, out, closedBy, usedBy>>

\* The agent run settles.  An agent that was given tools reaches them over
\* its Client, so a run whose Client is no longer connected cannot succeed.
BeeRunSettles(t) ==
  /\ pc[t] = "beeRun"
  /\ usedBy' = [usedBy EXCEPT ![clientRef[t]] = @ \cup {t}]
  /\ \/ /\ agentTools[t] = {} \/ client[clientRef[t]] = "connected"
        /\ produced' = [produced EXCEPT ![t] = "r1"]
        /\ IF rev = "server.js"
             THEN /\ pc' = [pc EXCEPT ![t] = "close"]
                  /\ UNCHANGED out
             ELSE /\ pc' = [pc EXCEPT ![t] = "beeDestroy"]
                  /\ out' = [out EXCEPT ![t] = Returned("r1")]
        /\ UNCHANGED raised
     \/ /\ raised' = [raised EXCEPT ![t] = Append(@, "E_run")]
        /\ IF rev = "server.js"
             THEN /\ pc' = [pc EXCEPT ![t] = "close"]
                  /\ UNCHANGED out
             ELSE /\ pc' = [pc EXCEPT ![t] = "beeDestroy"]
                  /\ out' = [out EXCEPT ![t] = Threw("E_run")]
        /\ UNCHANGED produced
  /\ UNCHANGED <<rev, req, server, client, clientRef, discovered, agentTools,
                 llm, calls, closedBy>>

\* client.close(): the Client is closed, and with it the linked in-memory
\* transport of the server at the other end.
Close(t) ==
  /\ client' = [client EXCEPT ![clientRef[t]] = "closed"]
  /\ server' = [server EXCEPT ![clientRef[t]].connected = FALSE]
  /\ closedBy' = [closedBy EXCEPT ![clientRef[t]] = @ \cup {t}]

\* server.js: finally { await client.close(); } -- a completion of the
\* finally block by a throw replaces the completion of the try block.
BeeFinally(t) ==
  /\ pc[t] = "close"
  /\ Close(t)
  /\ \/ /\ out' = [out EXCEPT ![t] =
             IF raised[t] = <<>> THEN Returned(produced[t])
                                 ELSE Threw(raised[t][Len(raised[t])])]
        /\ UNCHANGED raised
     \/ /\ raised' = [raised EXCEPT ![t] = Append(@, "E_close")]
        /\ out' = [out EXCEPT ![t] = Threw("E_close")]
  /\ pc' = [pc EXCEPT ![t] = "done"]
  /\ UNCHANGED <<rev, req, clientRef, discovered, agentTools, llm, calls,
                 produced, usedBy>>

\* Dockerfile revision: the destroy callback, agent.destroy(); client.close()
BeeDestroy(t) ==
  /\ pc[t] = "beeDestroy"
  /\ Close(t)
  /\ pc' = [pc EXCEPT ![t] = "done"]
  /\ UNCHANGED <<rev, req, clientRef, discovered, agentTools, llm, calls,
                 produced, raised, out, usedBy>>

\* ------------------------------------------------ exported createServer
CreateServerCall(t) ==
  /\ pc[t] = "idle"
  /\ pc[0] = "serving"
  /\ \E arg \in CreateServerArgs :
       /\ req' = [req EXCEPT ![t] = [NoReq EXCEPT !.kind = "createServer", !.arg = arg]]
       /\ createServer(t, "createServer", arg)
  /\ UNCHANGED <<rev, client, clientRef, discovered, agentTools, llm, calls,
                 produced, raised, closedBy, usedBy>>

Init ==
  /\ rev \in Revisions
  /\ pc = [t \in Procs |-> IF t = 0 THEN "runServer" ELSE "idle"]
  /\ req = [t \in Procs |-> IF t = 0 THEN [NoReq EXCEPT !.kind = "runServer"] ELSE NoReq]
  /\ server = [t \in Procs |-> NoServer]
  /\ client = [t \in Tasks |-> "none"]
  /\ clientRef = [t \in Tasks |-> 0]
  /\ discovered = [t \in Tasks |-> {}]
  /\ agentTools = [t \in Tasks |-> {}]
  /\ llm = [t \in Tasks |-> NoLLM]
  /\ calls = [t \in Tasks |-> <<>>]
  /\ produced = [t \in Tasks |-> "none"]
  /\ raised = [t \in Tasks |-> <<>>]
  /\ out = [t \in Tasks |-> Pending]
  /\ closedBy = [t \in Tasks |-> {}]
  /\ usedBy = [t \in Tasks |-> {}]

Next ==
  \/ RunServer
  \/ \E t \in Procs : RegisterWeather(t)
  \/ \E t \in Procs : RegisterSearch(t)
  \/ \E t \in Procs : RegisterAgents(t)
  \/ RunServerConnect
  \/ \E t \in Tasks : ToolRequest(t)
  \/ \E t \in Tasks : ToolRunSettles(t)
  \/ \E t \in Tasks : StreamlitRequest(t)
  \/ \E t \in Tasks : StreamlitRunCallback(t)
  \/ \E t \in Tasks : StreamlitRunSettles(t)
  \/ \E t \in Tasks : StreamlitDestroy(t)
  \/ \E t \in Tasks : BeeRequest(t)
  \/ \E t \in Tasks : ServerConnect(t)
  \/ \E t \in Tasks : ClientConnect(t)
  \/ \E t \in Tasks : FromClient(t)
  \/ \E t \in Tasks : BuildBeeAgent(t)
  \/ \E t \in Tasks : BeeRunCallback(t)
  \/ \E t \in Tasks : BeeRunSettles(t)
  \/ \E t \in Tasks : BeeFinally(t)
  \/ \E t \in Tasks : BeeDestroy(t)
  \/ \E t \in Tasks : CreateServerCall(t)

Spec == Init /\ [][Next]_vars

\* =========================================================== properties
ToolObject(name) == IF name = "weather" THEN "OpenMeteoTool" ELSE "DuckDuckGoSearchTool"
Registering == {"regWeather", "regSearch", "regAgents"}
ExternalErrors == {"E_tool", "E_run", "E_transport", "E_close"}
IsExternal(e) == e \in ExternalErrors
Unsupported(type) == "Unsupported llm " \o type

\* C1: every "Bee" invocation that has ended has closed the loopback pair it
\* opened, whatever step failed or succeeded after the pair was opened.
LoopbackAlwaysClosed ==
  \A t \in Tasks : (req[t].kind = "Bee" /\ pc[t] = "done") => client[t] = "closed"

\* C2: the input schema advertised under a tool's name is the schema declared
\* by the tool object registered under that name.
SchemaOfOwnTool ==
  \A p \in Procs : \A r \in server[p].tools : r.schema = ToolObject(r.name)

\* C3: a tool invocation calls run of the tool registered under that name
\* exactly once, with the arguments unchanged, calls no other run, and settles
\* exactly as that run call settled.
ToolPassThrough ==
  \A t \in Tasks : req[t].kind = "tool" =>
    /\ calls[t] = <<[callee |-> ToolObject(req[t].name), args |-> req[t].args]>>
    /\ pc[t] = "done" =>
         \/ out[t] = Returned(produced[t]) /\ produced[t] \in Outputs /\ raised[t] = <<>>
         \/ out[t] = Threw("E_tool") /\ produced[t] = "none" /\ raised[t] = <<"E_tool">>

ToolPassThroughWitness ==
  \E t \in Tasks, u \in Tasks :
    /\ req[t].kind = "tool" /\ req[t].name = "search" /\ req[t].args = "a2"
    /\ pc[t] = "done" /\ out[t] = Returned("r2")
    /\ req[u].kind = "tool" /\ req[u].name = "weather" /\ pc[u] = "done"

\* C4 as stated: createLLM returns a client for "ollama" and for "openai" and
\* throws for every other identifier.
CreateLLMSupportsOpenAI ==
  \A t \in Tasks : llm[t].called =>
    (req[t].llm \in {"ollama", "openai"} <=> ~llm[t].threw)

\* C4 amended: createLLM returns an OllamaChatLLM for "ollama" and throws
\* `Unsupported llm <type>` for every other identifier, "openai" included.
CreateLLMOnlyOllama ==
  \A t \in Tasks : llm[t].called =>
    IF req[t].llm = "ollama"
      THEN ~llm[t].threw /\ llm[t].value = "OllamaChatLLM"
      ELSE llm[t].threw /\ llm[t].value = Unsupported(req[t].llm)

CreateLLMWitness ==
  \E t \in Tasks, u \in Tasks :
    /\ llm[t].called /\ req[t].llm = "ollama" /\ ~llm[t].threw
    /\ llm[u].called /\ req[u].llm = "openai" /\ llm[u].threw

\* C5: once createServer has returned, tools are registered iff the tools flag
\* is truthy, agents iff the agents flag is truthy, and the declared
\* capabilities agree with what was registered.
FlagOf(p, which) ==
  IF ~req[p].arg.given THEN "true"
  ELSE IF which = "tools" THEN req[p].arg.tools ELSE req[p].arg.agents

RegistrationFollowsFlags ==
  \A p \in Procs : (server[p].made /\ pc[p] \notin Registering) =>
    /\ {r.name : r \in server[p].tools} =
         (IF FlagOf(p, "tools") = "true" THEN ToolNames ELSE {})
    /\ server[p].agents =
         (IF FlagOf(p, "agents") = "true" THEN {"Bee", "Streamlit"} ELSE {})
    /\ server[p].capTools <=> server[p].tools # {}
    /\ server[p].capAgents <=> server[p].agents # {}

RegistrationFollowsFlagsWitness ==
  \E t \in Tasks, u \in Tasks :
    /\ req[t].kind = "createServer" /\ pc[t] = "done" /\ server[t].made
    /\ req[t].arg = [given |-> TRUE, tools |-> "false", agents |-> "false"]
    /\ server[t].tools = {} /\ server[t].agents = {}
    /\ ~server[t].capTools /\ ~server[t].capAgents
    /\ req[u].kind = "createServer" /\ pc[u] = "done"
    /\ req[u].arg = [given |-> TRUE, tools |-> "undefined", agents |-> "true"]

\* C6: the first failure an external call raises inside a handler is what the
\* handler's caller receives, and the failed call is not made again.
ExternalErrorsUnchanged ==
  \A t \in Tasks :
    (pc[t] = "done" /\ SelectSeq(raised[t], IsExternal) # <<>>) =>
      /\ out[t] = Threw(SelectSeq(raised[t], IsExternal)[1])
      /\ Len(calls[t]) <= 1

BeeToolsAreFilteredDiscovery ==
  \A t \in Tasks : (req[t].kind = "Bee" /\ llm[t].called /\ ~llm[t].threw) =>
    /\ discovered[t] = {r.name : r \in server[t].tools}
    /\ server[t].agents = {}
    /\ agentTools[t] = {n \in discovered[t] : n \in req[t].tools}
    /\ agentTools[t] \subseteq ToolNames

BeeToolsWitness ==
  \E t \in Tasks, u \in Tasks :
    /\ req[t].kind = "Bee" /\ llm[t].called /\ ~llm[t].threw
    /\ req[t].tools = {"weather"} /\ agentTools[t] = {"weather"}
    /\ req[u].kind = "Bee" /\ llm[u].called /\ ~llm[u].threw
    /\ req[u].tools = {} /\ agentTools[u] = {}

\* C9: a server is connected only after its registrations have completed;
\* the loopback client connects after its server; tool discovery starts only
\* after both ends are connected; no handler runs on the stdio server before
\* its registration is complete.
RegistrationComplete(p) ==
  /\ server[p].made /\ pc[p] \notin Registering
  /\ server[p].capTools => {r.name : r \in server[p].tools} = ToolNames
  /\ server[p].capAgents => server[p].agents = {"Bee", "Streamlit"}

ConnectAfterRegistration ==
  /\ \A p \in Procs : server[p].connected => RegistrationComplete(p)
  /\ \A t \in Tasks :
       /\ client[t] = "connected" => server[t].connected
       /\ usedBy[t] # {} => (client[t] \in {"connected", "closed"} /\ RegistrationComplete(t))
       /\ req[t].kind \in {"tool", "Bee", "Streamlit"} => RegistrationComplete(0)

ConnectAfterRegistrationWitness ==
  /\ server[0].connected /\ server[0].agents # {} /\ server[0].tools # {}
  /\ \E t \in Tasks :
       /\ client[t] = "connected" /\ server[t].connected
       /\ t \in usedBy[t] /\ discovered[t] = ToolNames

\* C10: every "Bee" invocation binds, uses and closes only the Client it
\* opened itself, and while it is discovering tools or running its agent its
\* Client is connected, whatever other invocations do.
OwnLoopbackOnly ==
  \A t \in Tasks :
    /\ clientRef[t] \in {0, t}
    /\ closedBy[t] \subseteq {t}
    /\ usedBy[t] \subseteq {t}
    /\ client[t] # "none" => req[t].kind = "Bee"
    /\ pc[t] \in {"fromClient", "buildAgent", "beeRunCallback", "beeRun", "close", "beeDestroy"}
         => (clientRef[t] = t /\ client[t] = "connected")

OwnLoopbackOnlyWitness ==
  \E t \in Tasks, u \in Tasks :
    /\ t # u
    /\ req[t].kind = "Bee" /\ pc[t] = "done" /\ closedBy[t] = {t} /\ client[t] = "closed"
    /\ req[u].kind = "Bee" /\ pc[u] = "beeRun" /\ client[u] = "connected"
    /\ agentTools[u] # {}

====
